---- MODULE Spec2Model ----
(***************************************************************************)
(* Model of the /transcribe route of the AI Interview Coach backend        *)
(* (backend/routes/transcribe.js): the POST handler that stores an         *)
(* uploaded answer, transcodes it, transcribes it, classifies the emotion  *)
(* of each sentence (classifyParagraph), asks a generative model for an    *)
(* evaluation and answers the client, removing its temporary files.        *)
(*                                                                         *)
(* One request is followed from arrival to its last file removal.  The     *)
(* handler is an async function: every action below is the code that runs  *)
(* between two awaits (JavaScript runs it to completion), and the value    *)
(* the awaited call settles with is the action's input.                    *)
(***************************************************************************)
EXTENDS Integers, Sequences, FiniteSets, TLC

\* ------------------------------------------------------------------ bounds
\* Longest raw transcription-engine output, in characters.
MaxRawLen == 3
\* Largest accumulated score of one label, in the classifier's unit.
MaxScore == 2
\* Number of requests in flight together, largest value Date.now() takes
\* while they arrive, largest value of Math.round(Math.random() * 1e9).
NumRequests == 2
MaxTime == 1
MaxRandom == 1

\* ------------------------------------------------------- program constants
\* const maxRetries = 3
maxRetries == 3
\* toFixed(4): scores are rounded to 4 decimal digits, i.e. to 1/10000.
Fixed4 == 10000

\* ---------------------------------------------------------------- strings
\* A text is a sequence of characters.  "a" stands for any character that
\* is neither whitespace nor sentence punctuation; "[" stands for one piece
\* of engine decoration (a timestamp such as [00:00.000 --> 00:02.000]).
Punct == {".", "!", "?"}
White == {" ", "\n"}
TextChars == {"a", " ", "."}
RawChars == TextChars \cup {"["}

RECURSIVE SeqsUpTo(_, _)
SeqsUpTo(S, n) ==
  IF n = 0 THEN {<< >>}
  ELSE LET shorter == SeqsUpTo(S, n - 1)
       IN  shorter \cup {Append(s, c) : s \in {t \in shorter : Len(t) = n - 1}, c \in S}

\* String.prototype.trim
RECURSIVE trim(_)
trim(s) ==
  IF s = << >> THEN s
  ELSE IF Head(s) \in White THEN trim(Tail(s))
  ELSE IF s[Len(s)] \in White THEN trim(SubSeq(s, 1, Len(s) - 1))
  ELSE s

\* Runs of whitespace become one space.
RECURSIVE CollapseWhite(_)
CollapseWhite(s) ==
  IF Len(s) < 2 THEN s
  ELSE IF Head(s) \in White /\ s[2] \in White THEN CollapseWhite(Tail(s))
  ELSE <<Head(s)>> \o CollapseWhite(Tail(s))

\* cleanTranscription (utils/fileHelpers.js): strips the engine's
\* decoration, collapses internal whitespace, trims both ends.
cleanTranscription(raw) ==
  trim(CollapseWhite(SelectSeq(raw, LAMBDA c : c # "[")))

\* The outputs the transcription engine can print.
WhisperOutputs == SeqsUpTo(RawChars, MaxRawLen)

\* ------------------------------------------------------ sentence splitting
\* text.match(/[^.!?]+[.!?]?/g): from position p, the next match starts at
\* the first character that is not punctuation, takes the longest run of
\* such characters and then one punctuation character if one follows.
RECURSIVE RunEnd(_, _)
RunEnd(text, q) ==
  IF q < Len(text) /\ text[q + 1] \notin Punct THEN RunEnd(text, q + 1) ELSE q

RECURSIVE MatchAll(_, _)
MatchAll(text, p) ==
  IF p > Len(text) THEN << >>
  ELSE IF text[p] \in Punct THEN MatchAll(text, p + 1)
  ELSE LET e == RunEnd(text, p)
           last == IF e < Len(text) /\ text[e + 1] \in Punct THEN e + 1 ELSE e
       IN  <<SubSeq(text, p, last)>> \o MatchAll(text, last + 1)

\* const sentences = text.match(...) || [text]
SplitSentences(text) ==
  IF MatchAll(text, 1) = << >> THEN <<text>> ELSE MatchAll(text, 1)

\* ------------------------------------------------------------ emotion map
emotionMapKeys == {"joy", "love", "surprise", "sadness", "fear", "anger"}
emotionMapFearHesitant(label) ==
  CASE label \in {"joy", "love"} -> "Confident"
    [] label = "surprise" -> "Engaged"
    [] label \in {"sadness", "fear"} -> "Hesitant"
    [] label = "anger" -> "Assertive"

emotionMap(label) ==
  CASE label \in {"joy", "love"} -> "Confident"
    [] label = "surprise" -> "Engaged"
    [] label = "sadness" -> "Hesitant"
    [] label = "fear" -> "Cautious"
    [] label = "anger" -> "Assertive"

\* emotionMap[x] || x
mappedEmotion(label) ==
  IF label \in emotionMapKeys THEN emotionMap(label) ELSE label

\* --------------------------------------------------------------- score map
\* scoreMap is a JavaScript object: its keys keep their insertion order, so
\* it is a sequence of [label, score] entries with distinct labels.
\* Classifier scores are whole numbers of an arbitrary unit; normalized
\* scores are whole numbers of 1/Fixed4.
Labels(m) == {m[i].label : i \in 1..Len(m)}

\* if (!scoreMap[r.label]) scoreMap[r.label] = 0; scoreMap[r.label] += r.score;
AccumulateOverwrite(m, r) ==
  IF r.label \in Labels(m)
  THEN [i \in 1..Len(m) |-> IF m[i].label = r.label
                            THEN [label |-> r.label, score |-> r.score]
                            ELSE m[i]]
  ELSE Append(m, [label |-> r.label, score |-> r.score])

AccumulateOne(m, r) ==
  IF r.label \in Labels(m)
  THEN [i \in 1..Len(m) |-> IF m[i].label = r.label
                            THEN [label |-> r.label, score |-> m[i].score + r.score]
                            ELSE m[i]]
  ELSE Append(m, [label |-> r.label, score |-> r.score])

\* res.forEach((r) => ...)
RECURSIVE Accumulate(_, _)
Accumulate(m, res) ==
  IF res = << >> THEN m ELSE Accumulate(AccumulateOne(m, Head(res)), Tail(res))

\* Object.values(scoreMap).reduce((sum, score) => sum + score, 0)
RECURSIVE TotalScore(_)
TotalScore(m) == IF m = << >> THEN 0 ELSE Head(m).score + TotalScore(Tail(m))

\* parseFloat((v / total).toFixed(4)), in units of 1/Fixed4; toFixed rounds
\* to the nearest and takes the larger of two equally near values.
Round4Down(v, total) == (v * Fixed4) \div total

Round4(v, total) == (2 * v * Fixed4 + total) \div (2 * total)

\* if (totalScore > 0) for (const label in scoreMap) scoreMap[label] = ...
Normalize(m) ==
  IF TotalScore(m) > 0
  THEN [i \in 1..Len(m) |->
          [label |-> m[i].label, score |-> Round4(m[i].score, TotalScore(m))]]
  ELSE m

\* Object.entries(scoreMap).sort((a, b) => b[1] - a[1]): Array.prototype.sort
\* is stable, so entries of equal score keep their insertion order.
RECURSIVE InsertAsc(_, _)
InsertAsc(sorted, e) ==
  IF sorted = << >> THEN <<e>>
  ELSE IF Head(sorted).score <= e.score
       THEN <<Head(sorted)>> \o InsertAsc(Tail(sorted), e)
       ELSE <<e>> \o sorted

RECURSIVE InsertDescTiesLast(_, _)
InsertDescTiesLast(sorted, e) ==
  IF sorted = << >> THEN <<e>>
  ELSE IF Head(sorted).score > e.score
       THEN <<Head(sorted)>> \o InsertDescTiesLast(Tail(sorted), e)
       ELSE <<e>> \o sorted

RECURSIVE InsertDesc(_, _)
InsertDesc(sorted, e) ==
  IF sorted = << >> THEN <<e>>
  ELSE IF Head(sorted).score >= e.score
       THEN <<Head(sorted)>> \o InsertDesc(Tail(sorted), e)
       ELSE <<e>> \o sorted

RECURSIVE SortDesc(_)
SortDesc(m) ==
  IF m = << >> THEN << >>
  ELSE InsertDesc(SortDesc(SubSeq(m, 1, Len(m) - 1)), m[Len(m)])

\* The value classifyParagraph returns for a final scoreMap.
ClassifyResultNoDefault(m) ==
  LET n == Normalize(m)
      sorted == SortDesc(n)
  IN  [dominantEmotion |-> IF Len(sorted) > 0 THEN sorted[1].label ELSE "none",
       detailedScores |-> n]

ClassifyResult(m) ==
  LET n == Normalize(m)
      sorted == SortDesc(n)
  IN  [dominantEmotion |-> IF Len(sorted) > 0 THEN sorted[1].label ELSE "neutral",
       detailedScores |-> n]

\* ------------------------------------------------------------------- JSON
\* A request field that is not sent is undefined.
Undefined == "undefined"
Null == "null"

\* The values the optional postureData / emotionData fields can take: not
\* sent, a JSON document, and text that is not JSON.
TelemetryInputs == {Undefined, "[1]", "{"}

\* err.message of the error each operation fails with.
ErrorMessage(op) ==
  CASE op = "mv" -> "ENOSPC: no space left on device"
    [] op = "ffmpeg" -> "ffmpeg exited with code 1"
    [] op = "whisper" -> "whisper exited with code 1"
    [] op = "hf" -> "fetch failed"
    [] op = "genai" -> "generateContent failed"
    [] op = "aiFeedback.evaluation" -> "Cannot read properties of null"
    [] OTHER -> "Unexpected token"

\* JSON.parse of a telemetry string: [ok, value] or [ok = FALSE, message].
JsonParse(s) ==
  CASE s = "[1]" -> [ok |-> TRUE, value |-> "array(1)", message |-> ""]
    [] s = "null" -> [ok |-> TRUE, value |-> Null, message |-> ""]
    [] OTHER -> [ok |-> FALSE, value |-> Undefined,
                 message |-> ErrorMessage("JSON.parse")]

\* x ? JSON.parse(x) : null   (undefined and "" are falsy)
Truthy(s) == s \notin {Undefined, ""}
ParseOptionalLenient(s) ==
  IF Truthy(s) /\ JsonParse(s).ok THEN JsonParse(s)
  ELSE [ok |-> TRUE, value |-> Null, message |-> ""]

ParseOptional(s) ==
  IF Truthy(s) THEN JsonParse(s) ELSE [ok |-> TRUE, value |-> Null, message |-> ""]

\* The evaluation the prompt asks for, and one that breaks its rules.
Rating(n) == [score |-> n, justification |-> "because"]
EvalGood ==
  [ratings |-> [clarity |-> Rating(4), relevance |-> Rating(5), completeness |-> Rating(1)],
   sentimentTone |-> "tone", answerStrength |-> "strength",
   howToMakeItBetter |-> <<"tip", "tip">>, suggestedBetterAnswer |-> "answer"]
EvalBad ==
  [ratings |-> [clarity |-> Rating(7), relevance |-> Rating(5), completeness |-> Rating(0)],
   sentimentTone |-> "tone", answerStrength |-> "strength",
   howToMakeItBetter |-> <<"tip", "tip", "tip", "tip", "tip", "tip">>,
   suggestedBetterAnswer |-> "answer"]
Holistic == [insight |-> "insight", strength |-> "strength", improvement_tip |-> "tip"]
EmptyObject == [k \in {} |-> TRUE]

\* The JSON documents the generative model can write, by name.
JsonDocs == {"FULL", "NOHOLISTIC", "EMPTY", "BAD", "null"}
DocValue(d) ==
  CASE d = "FULL" -> [evaluation |-> EvalGood, holisticFeedback |-> Holistic]
    [] d = "NOHOLISTIC" -> [evaluation |-> EvalGood]
    [] d = "BAD" -> [evaluation |-> EvalBad, holisticFeedback |-> Holistic]
    [] OTHER -> EmptyObject

\* The text of a model reply is a sequence of tokens: a JSON document, a
\* code-fence marker (three backquotes, with or without "json"), whitespace,
\* or prose.
Fences == {"fence-json", "fence"}
AiReplies ==
  {<<d>> : d \in JsonDocs}
    \cup {<<"fence-json", "\n", d, "\n", "fence">> : d \in {"FULL", "EMPTY"}}
    \cup {<<"prose", "FULL">>}

\* .replace(/(fence)json|(fence)/g, ""), (fence) being three backquotes
StripFences(t) == SelectSeq(t, LAMBDA x : x \notin Fences)

\* JSON.parse of a reply: whitespace around one document is accepted.
ParseReply(t) ==
  LET body == trim(t)
  IN  IF Len(body) = 1 /\ body[1] \in JsonDocs
      THEN [ok |-> TRUE, isNull |-> body[1] = "null", value |-> DocValue(body[1]),
            message |-> ""]
      ELSE [ok |-> FALSE, isNull |-> FALSE, value |-> EmptyObject,
            message |-> ErrorMessage("JSON.parse")]

\* result.response.text().trim().replace(...) then JSON.parse
ParseAiText(t) == ParseReply(StripFences(trim(t)))

\* JSON.stringify leaves out a key whose value is undefined.
Optional(obj, key) ==
  IF key \in DOMAIN obj THEN key :> obj[key] ELSE EmptyObject

\* ------------------------------------------------------------- classifier
\* What hf.textClassification can resolve with: a list of {label, score}.
HfResults ==
  { <<[label |-> "joy", score |-> 3], [label |-> "sadness", score |-> 1]>>,
    <<[label |-> "sadness", score |-> 2], [label |-> "joy", score |-> 2]>>,
    <<[label |-> "fear", score |-> 0]>> }

\* ------------------------------------------------------------------ state
Files == {"webm", "wav"}

VARIABLES
  pc,          \* the await the handler is suspended at
  req,         \* the request: req.files.audio present?, req.body fields
  storage,     \* the temporary files of the request that exist in uploadsDir
  unlink,      \* per file: the state of the fs.unlink started by finally
  resSent,     \* the responses sent on res, in order
  outcome,     \* how the handler ended
  failure,     \* the operation that threw or rejected into the catch block
  cleanedText,
  sentences,   \* classifyParagraph: the split text
  idx,         \* classifyParagraph: index of the sentence being classified
  attempt,     \* classifyParagraph: the attempt counter of the retry loop
  scoreMap,    \* classifyParagraph: accumulated scores
  textualEmotionResult,
  masterPrompt, \* the data put in the prompt sent to the generative model
  stages,      \* the pipeline stages started, in order
  hfLog,       \* the classifier calls that have settled and the waits started
  genaiCalls   \* number of generateContent calls made

vars == <<pc, req, storage, unlink, resSent, outcome, failure, cleanedText,
          sentences, idx, attempt, scoreMap, textualEmotionResult, masterPrompt,
          stages, hfLog, genaiCalls>>

NoRequest == [audio |-> FALSE, questionText |-> Undefined,
              postureData |-> Undefined, emotionData |-> Undefined]
NoResult == [dominantEmotion |-> "", detailedScores |-> << >>]
NoPrompt == [transcript |-> << >>, postureData |-> Undefined,
             emotionData |-> Undefined, tone |-> ""]

Requests ==
  [audio : BOOLEAN, questionText : {"Q"},
   postureData : TelemetryInputs, emotionData : TelemetryInputs]

Init ==
  /\ pc = "idle"
  /\ req = NoRequest
  /\ storage = {}
  /\ unlink = [f \in Files |-> "none"]
  /\ resSent = << >>
  /\ outcome = "none"
  /\ failure = "none"
  /\ cleanedText = << >>
  /\ sentences = << >>
  /\ idx = 0
  /\ attempt = 0
  /\ scoreMap = << >>
  /\ textualEmotionResult = NoResult
  /\ masterPrompt = NoPrompt
  /\ stages = << >>
  /\ hfLog = << >>
  /\ genaiCalls = 0

\* ------------------------------------------------------- the POST handler
TextResponse(status, text) == [status |-> status, text |-> text]
JsonResponse(body) == [status |-> 200, json |-> body]

\* finally { fs.unlink(webmPath, () => {}); fs.unlink(wavPath, () => {}); }
FinallyWebmOnly == unlink' = [unlink EXCEPT !["webm"] = "pending"]

Finally == unlink' = [f \in Files |-> "pending"]

\* catch (err) { res.status(500).send(`Processing failed: ${err.message}`) }
\* followed by the finally block; the handler ends.
CatchNoMessage(message) ==
  /\ resSent' = Append(resSent, TextResponse(500, <<"Processing failed">>))
  /\ outcome' = "failed"
  /\ Finally
  /\ pc' = "done"

Catch(message) ==
  /\ resSent' = Append(resSent, TextResponse(500, <<"Processing failed: ", message>>))
  /\ outcome' = "failed"
  /\ Finally
  /\ pc' = "done"

\* if (!req.files || !req.files.audio)
NoAudioNever(r) == FALSE

NoAudio(r) == ~r.audio

\* A request arrives: the handler runs up to await audioFile.mv(webmPath).
Post(r) ==
  /\ pc = "idle"
  /\ req' = r
  /\ IF NoAudio(r)
     THEN /\ resSent' = Append(resSent, TextResponse(400, <<"No audio uploaded">>))
          /\ outcome' = "rejected"
          /\ pc' = "done"
          /\ UNCHANGED stages
     ELSE /\ stages' = Append(stages, "materialize")
          /\ pc' = "mv"
          /\ UNCHANGED <<resSent, outcome>>
  /\ UNCHANGED <<storage, unlink, failure, cleanedText, sentences, idx, attempt,
                 scoreMap, textualEmotionResult, masterPrompt, hfLog, genaiCalls>>

\* audioFile.mv settles; on success the handler starts the transcoder.  A
\* failed move may or may not leave a (partial) file behind.
MvSettlesIgnoresFailure(ok, leftover) ==
  /\ pc = "mv"
  /\ storage' = IF ok \/ leftover THEN storage \cup {"webm"} ELSE storage
  /\ stages' = Append(stages, "normalize")
  /\ pc' = "ffmpeg"
  /\ UNCHANGED <<resSent, outcome, failure, unlink>>
  /\ UNCHANGED <<req, cleanedText, sentences, idx, attempt, scoreMap,
                 textualEmotionResult, masterPrompt, hfLog, genaiCalls>>

MvSettles(ok, leftover) ==
  /\ pc = "mv"
  /\ IF ok
     THEN /\ storage' = storage \cup {"webm"}
          /\ stages' = Append(stages, "normalize")
          /\ pc' = "ffmpeg"
          /\ UNCHANGED <<resSent, outcome, failure, unlink>>
     ELSE /\ storage' = IF leftover THEN storage \cup {"webm"} ELSE storage
          /\ failure' = "mv"
          /\ Catch(ErrorMessage("mv"))
          /\ UNCHANGED stages
  /\ UNCHANGED <<req, cleanedText, sentences, idx, attempt, scoreMap,
                 textualEmotionResult, masterPrompt, hfLog, genaiCalls>>

\* runCommand(ffmpegPath, ...) settles; on success the handler starts the
\* transcription engine.  A failed transcode may leave a partial .wav.
FfmpegSettles(ok, leftover) ==
  /\ pc = "ffmpeg"
  /\ IF ok
     THEN /\ storage' = storage \cup {"wav"}
          /\ stages' = Append(stages, "transcribe")
          /\ pc' = "whisper"
          /\ UNCHANGED <<resSent, outcome, failure, unlink>>
     ELSE /\ storage' = IF leftover THEN storage \cup {"wav"} ELSE storage
          /\ failure' = "ffmpeg"
          /\ Catch(ErrorMessage("ffmpeg"))
          /\ UNCHANGED stages
  /\ UNCHANGED <<req, cleanedText, sentences, idx, attempt, scoreMap,
                 textualEmotionResult, masterPrompt, hfLog, genaiCalls>>

\* ------------------------------------------------------ classifyParagraph
\* for (const s of sentences) { const trimmed = s.trim();
\*                              if (!trimmed.length) continue; ... }
\* The index of the next sentence at or after i that is classified, 0 if none.
NextSentenceSkips(sents, i) ==
  IF i + 1 > Len(sents) THEN 0
  ELSE IF trim(sents[i + 1]) # << >> THEN i + 1 ELSE 0

RECURSIVE NextSentence(_, _)
NextSentence(sents, i) ==
  IF i > Len(sents) THEN 0
  ELSE IF trim(sents[i]) # << >> THEN i
  ELSE NextSentence(sents, i + 1)

CallEntry(ok, res) ==
  [kind |-> "call", s |-> idx, attempt |-> attempt, ok |-> ok, res |-> res]
WaitEntry == [kind |-> "wait", s |-> idx, attempt |-> attempt, ok |-> FALSE, res |-> << >>]

\* The handler after classifyParagraph(text) has returned for the score map m,
\* with st the stages started so far: telemetry is parsed, the dominant emotion is
\* mapped, the prompt is built and the generative model is called.
AfterClassify(text, m, st) ==
  LET result == ClassifyResult(m)
      posture == ParseOptional(req.postureData)
      emotion == ParseOptional(req.emotionData)
  IN  /\ textualEmotionResult' = result
      /\ IF ~posture.ok
         THEN /\ failure' = "postureData"
              /\ Catch(posture.message)
              /\ stages' = st
              /\ UNCHANGED <<masterPrompt, genaiCalls>>
         ELSE IF ~emotion.ok
         THEN /\ failure' = "emotionData"
              /\ Catch(emotion.message)
              /\ stages' = st
              /\ UNCHANGED <<masterPrompt, genaiCalls>>
         ELSE /\ masterPrompt' = [transcript |-> text,
                                  postureData |-> posture.value,
                                  emotionData |-> emotion.value,
                                  tone |-> mappedEmotion(result.dominantEmotion)]
              /\ genaiCalls' = genaiCalls + 1
              /\ stages' = Append(st, "synthesize")
              /\ pc' = "genai"
              /\ UNCHANGED <<resSent, outcome, failure, unlink>>

\* The loop of classifyParagraph moves past sentence i with score map m:
\* either the next sentence is sent to the classifier, or the function
\* returns and the handler goes on.
MoveOn(text, sents, i, m, st) ==
  LET n == NextSentence(sents, i + 1)
  IN  IF n # 0
      THEN /\ sentences' = sents
           /\ idx' = n
           /\ attempt' = 1
           /\ scoreMap' = m
           /\ stages' = st
           /\ pc' = "hf"
           /\ UNCHANGED <<resSent, outcome, failure, unlink,
                          textualEmotionResult, masterPrompt, genaiCalls>>
      ELSE /\ sentences' = << >>
           /\ idx' = 0
           /\ attempt' = 0
           /\ scoreMap' = << >>
           /\ AfterClassify(text, m, st)

\* if (!cleanedText)
IsEmptyNever(text) == FALSE

IsEmpty(text) == text = << >>

\* runCommand(whisperExe, ...) settles.  On success the output is cleaned;
\* an empty transcript ends the request, any other starts classifyParagraph,
\* which runs up to its first await hf.textClassification.
WhisperSettles(ok, raw) ==
  /\ pc = "whisper"
  /\ IF ~ok
     THEN /\ failure' = "whisper"
          /\ Catch(ErrorMessage("whisper"))
          /\ UNCHANGED <<cleanedText, sentences, idx, attempt, scoreMap,
                         textualEmotionResult, masterPrompt, stages, genaiCalls>>
     ELSE LET text == cleanTranscription(raw)
          IN  /\ cleanedText' = text
              /\ IF IsEmpty(text)
                 THEN /\ resSent' = Append(resSent,
                            JsonResponse([skipEvaluation |-> TRUE,
                                          message |-> "No speech detected."]))
                      /\ outcome' = "noSpeech"
                      /\ Finally
                      /\ pc' = "done"
                      /\ UNCHANGED <<failure, sentences, idx, attempt, scoreMap,
                                     textualEmotionResult, masterPrompt, stages,
                                     genaiCalls>>
                 ELSE MoveOn(text, SplitSentences(text), 0, << >>, Append(stages, "classify"))
  /\ UNCHANGED <<req, storage, hfLog>>

\* const maxRetries = 3: the last attempt of a sentence.
LastAttemptEarly(a) == a = maxRetries - 1

LastAttempt(a) == a = maxRetries

\* catch (err) { if (attempt === maxRetries) console.warn(...) }: the loop
\* leaves the sentence out and goes on.
GiveUpThrows ==
  /\ failure' = "hf"
  /\ Catch(ErrorMessage("hf"))
  /\ UNCHANGED <<sentences, idx, attempt, scoreMap, stages,
                 textualEmotionResult, masterPrompt, genaiCalls>>

GiveUp == MoveOn(cleanedText, sentences, idx, scoreMap, stages)

\* After a successful call: break (leave the retry loop).
AfterSuccess(m) == MoveOn(cleanedText, sentences, idx, m, stages)

\* await hf.textClassification({inputs: trimmed}) settles for the sentence
\* idx on the current attempt: with a list of scores, or with an error.
HfSettles(ok, res) ==
  /\ pc = "hf"
  /\ IF ok
     THEN /\ hfLog' = Append(hfLog, CallEntry(TRUE, res))
          /\ AfterSuccess(Accumulate(scoreMap, res))
     ELSE IF LastAttempt(attempt)
     THEN /\ hfLog' = Append(hfLog, CallEntry(FALSE, << >>))
          /\ GiveUp
     ELSE /\ hfLog' = hfLog \o <<CallEntry(FALSE, << >>), WaitEntry>>
          /\ pc' = "backoff"
          /\ UNCHANGED <<sentences, idx, attempt, scoreMap, stages, resSent,
                         outcome, failure, unlink, textualEmotionResult,
                         masterPrompt, genaiCalls>>
  /\ UNCHANGED <<req, storage, cleanedText>>

\* await new Promise((resolve) => setTimeout(resolve, 500)) ends: attempt++
BackoffNeverElapses == pc = "backoff" /\ UNCHANGED vars

BackoffElapses ==
  /\ pc = "backoff"
  /\ attempt' = attempt + 1
  /\ pc' = "hf"
  /\ UNCHANGED <<req, storage, unlink, resSent, outcome, failure, cleanedText,
                 sentences, idx, scoreMap, textualEmotionResult, masterPrompt,
                 stages, hfLog, genaiCalls>>

\* ------------------------------------------------------------- synthesis
\* res.json({transcription, postureAnalysis, ..., question})
SuccessBodyMapped(ai) ==
  [transcription |-> cleanedText,
   postureAnalysis |-> [data |-> masterPrompt.postureData],
   emotionAnalysis |-> [data |-> masterPrompt.emotionData],
   dominantEmotion |-> masterPrompt.tone,
   textualEmotionAnalysis |-> [data |-> textualEmotionResult.detailedScores],
   question |-> req.questionText]
    @@ Optional(ai, "evaluation") @@ Optional(ai, "holisticFeedback")

SuccessBody(ai) ==
  [transcription |-> cleanedText,
   postureAnalysis |-> [data |-> masterPrompt.postureData],
   emotionAnalysis |-> [data |-> masterPrompt.emotionData],
   dominantEmotion |-> textualEmotionResult.dominantEmotion,
   textualEmotionAnalysis |-> [data |-> textualEmotionResult.detailedScores],
   question |-> req.questionText]
    @@ Optional(ai, "evaluation") @@ Optional(ai, "holisticFeedback")

\* await model.generateContent(masterPrompt) settles; the reply is parsed
\* and the response is sent; the finally block starts the removals.
GenaiSettles(ok, reply) ==
  /\ pc = "genai"
  /\ IF ~ok
     THEN /\ failure' = "genai"
          /\ Catch(ErrorMessage("genai"))
     ELSE LET parsed == ParseAiText(reply)
          IN  IF ~parsed.ok
              THEN /\ failure' = "JSON.parse"
                   /\ Catch(parsed.message)
              ELSE IF parsed.isNull
              THEN /\ failure' = "aiFeedback.evaluation"
                   /\ Catch(ErrorMessage("aiFeedback.evaluation"))
              ELSE /\ resSent' = Append(resSent, JsonResponse(SuccessBody(parsed.value)))
                   /\ outcome' = "done"
                   /\ Finally
                   /\ pc' = "done"
                   /\ UNCHANGED failure
  /\ UNCHANGED <<req, storage, cleanedText, sentences, idx, attempt, scoreMap,
                 textualEmotionResult, masterPrompt, stages, hfLog, genaiCalls>>

\* ---------------------------------------------------------------- removal
\* The path each of the two fs.unlink calls is given: webmPath, wavPath.
UnlinkPathWebmTwice(f) == "webm"

UnlinkPath(f) == f

\* The fs.unlink started by the finally block for artifact f completes; its
\* callback () => {} ignores the error it is given (ENOENT when the file is
\* absent, or the error of a removal the file system refused).
UnlinkSettles(f, removed) ==
  /\ unlink[f] = "pending"
  /\ IF UnlinkPath(f) \notin storage
     THEN /\ unlink' = [unlink EXCEPT ![f] = "ENOENT"]
          /\ UNCHANGED storage
     ELSE IF removed
     THEN /\ unlink' = [unlink EXCEPT ![f] = "removed"]
          /\ storage' = storage \ {UnlinkPath(f)}
     ELSE /\ unlink' = [unlink EXCEPT ![f] = "failed"]
          /\ UNCHANGED storage
  /\ UNCHANGED <<pc, req, resSent, outcome, failure, cleanedText, sentences, idx,
                 attempt, scoreMap, textualEmotionResult, masterPrompt, stages,
                 hfLog, genaiCalls>>

Next ==
  \/ \E r \in Requests : Post(r)
  \/ \E ok \in BOOLEAN, leftover \in BOOLEAN : MvSettles(ok, leftover)
  \/ \E ok \in BOOLEAN, leftover \in BOOLEAN : FfmpegSettles(ok, leftover)
  \/ \E ok \in BOOLEAN, raw \in WhisperOutputs : WhisperSettles(ok, raw)
  \/ \E ok \in BOOLEAN, res \in HfResults : HfSettles(ok, res)
  \/ BackoffElapses
  \/ \E ok \in BOOLEAN, reply \in AiReplies : GenaiSettles(ok, reply)
  \/ \E f \in Files, removed \in BOOLEAN : UnlinkSettles(f, removed)

Spec == Init /\ [][Next]_vars

\* Every awaited call settles: the file move, the two child processes, the
\* classifier and the generative model return or fail, and the timer of the
\* backoff fires.  (The removals started by finally are not awaited.)
ExternalCallsReturn ==
  /\ WF_vars(\E ok \in BOOLEAN, leftover \in BOOLEAN : MvSettles(ok, leftover))
  /\ WF_vars(\E ok \in BOOLEAN, leftover \in BOOLEAN : FfmpegSettles(ok, leftover))
  /\ WF_vars(\E ok \in BOOLEAN, raw \in WhisperOutputs : WhisperSettles(ok, raw))
  /\ WF_vars(\E ok \in BOOLEAN, res \in HfResults : HfSettles(ok, res))
  /\ WF_vars(BackoffElapses)
  /\ WF_vars(\E ok \in BOOLEAN, reply \in AiReplies : GenaiSettles(ok, reply))

SpecLive == Spec /\ ExternalCallsReturn

\* ---------------------------------------------------- telemetry fields
\* The same handler, followed for every form the two optional telemetry
\* fields can take (not sent, empty, JSON, the JSON text null, text that is
\* not JSON) and for the shortest outputs of the transcription engine.
TelemetryForms == TelemetryInputs \cup {"", "null"}
TelemetryRequests ==
  [audio : BOOLEAN, questionText : {"Q"},
   postureData : TelemetryForms, emotionData : TelemetryForms]
ShortOutputs == {raw \in WhisperOutputs : Len(raw) <= 1}

NextTelemetry ==
  \/ \E r \in TelemetryRequests : Post(r)
  \/ \E ok \in BOOLEAN, leftover \in BOOLEAN : MvSettles(ok, leftover)
  \/ \E ok \in BOOLEAN, leftover \in BOOLEAN : FfmpegSettles(ok, leftover)
  \/ \E ok \in BOOLEAN, raw \in ShortOutputs : WhisperSettles(ok, raw)
  \/ \E ok \in BOOLEAN, res \in HfResults : HfSettles(ok, res)
  \/ BackoffElapses
  \/ \E ok \in BOOLEAN, reply \in AiReplies : GenaiSettles(ok, reply)
  \/ \E f \in Files, removed \in BOOLEAN : UnlinkSettles(f, removed)

SpecTelemetry == Init /\ [][NextTelemetry]_vars

\* ------------------------------------------- classifyParagraph, the ending
\* The code of classifyParagraph after its loop (normalize, sort, return)
\* and the mapping of the handler, applied to every accumulated score map
\* of a bounded set: the first n labels of the classifier's model, each with
\* a score of 0..MaxScore.
ModelLabels == <<"joy", "love", "surprise", "sadness", "fear", "anger">>
ScoreMaps ==
  UNION {[1..n -> 0..MaxScore] : n \in 0..Len(ModelLabels)}
AsScoreMap(f) == [i \in DOMAIN f |-> [label |-> ModelLabels[i], score |-> f[i]]]

InitScores ==
  /\ pc = "scores"
  /\ \E f \in ScoreMaps : scoreMap = AsScoreMap(f)
  /\ req = NoRequest
  /\ storage = {}
  /\ unlink = [f \in Files |-> "none"]
  /\ resSent = << >>
  /\ outcome = "none"
  /\ failure = "none"
  /\ cleanedText = << >>
  /\ sentences = << >>
  /\ idx = 0
  /\ attempt = 0
  /\ textualEmotionResult = NoResult
  /\ masterPrompt = NoPrompt
  /\ stages = << >>
  /\ hfLog = << >>
  /\ genaiCalls = 0

\* const totalScore = ...; if (totalScore > 0) ...; const sorted = ...;
\* return {dominantEmotion, detailedScores}; then, in the handler,
\* mappedDominantEmotion = emotionMap[dominantEmotion] || dominantEmotion
ReturnScores ==
  /\ pc = "scores"
  /\ textualEmotionResult' = ClassifyResult(scoreMap)
  /\ masterPrompt' =
       [masterPrompt EXCEPT !.tone = mappedEmotion(ClassifyResult(scoreMap).dominantEmotion)]
  /\ pc' = "returned"
  /\ UNCHANGED <<req, storage, unlink, resSent, outcome, failure, cleanedText,
                 sentences, idx, attempt, scoreMap, stages, hfLog, genaiCalls>>

NextScores == ReturnScores

SpecScores == InitScores /\ [][NextScores]_vars

\* ---------------------------------------------------- concurrent requests
\* Several requests are handled by the one Node.js process; their handlers
\* interleave at the awaits and share only the directory uploadsDir.  In
\* this specification the handler's variables are kept per request
\* (pc[r], req[r], unlink[r], resSent[r], outcome[r]) and storage holds,
\* for every file that exists in uploadsDir, its path and the request that
\* wrote it last.  The steps that touch no file (classification, telemetry,
\* prompt, generative model, reply parsing) are one step of a request.
Reqs == 1..NumRequests
\* const uniqueId = Date.now() + "-" + Math.round(Math.random() * 1e9)
UniqueIds == (0..MaxTime) \X (0..MaxRandom)
\* webmPath = uploadsDir/<uniqueId>-answer.webm, wavPath = the same with .wav
PathOf(id, f) == <<id, f>>
Exists(path) == \E e \in storage : e.path = path
\* Writing a file replaces the file of that path, if any (mv; ffmpeg -y).
WriteFile(path, r) ==
  {e \in storage : e.path # path} \cup {[path |-> path, writer |-> r]}

InitConcurrent ==
  /\ pc = [r \in Reqs |-> "idle"]
  /\ req = [r \in Reqs |-> [audio |-> FALSE, uniqueId |-> Undefined]]
  /\ storage = {}
  /\ unlink = [r \in Reqs |-> [f \in Files |-> "none"]]
  /\ resSent = [r \in Reqs |-> << >>]
  /\ outcome = [r \in Reqs |-> "none"]
  /\ failure = "none"
  /\ cleanedText = << >>
  /\ sentences = << >>
  /\ idx = 0
  /\ attempt = 0
  /\ scoreMap = << >>
  /\ textualEmotionResult = NoResult
  /\ masterPrompt = NoPrompt
  /\ stages = << >>
  /\ hfLog = << >>
  /\ genaiCalls = 0

RestUnchanged ==
  UNCHANGED <<failure, cleanedText, sentences, idx, attempt, scoreMap,
              textualEmotionResult, masterPrompt, stages, hfLog, genaiCalls>>

\* Request r ends with a response of the given status; finally starts both
\* removals.
EndOf(r, status, how) ==
  /\ resSent' = [resSent EXCEPT ![r] = Append(@, status)]
  /\ outcome' = [outcome EXCEPT ![r] = how]
  /\ unlink' = [unlink EXCEPT ![r] = [f \in Files |-> "pending"]]
  /\ pc' = [pc EXCEPT ![r] = "done"]

\* Request r arrives; id is the value uniqueId is given.
PostOf(r, audio, id) ==
  /\ pc[r] = "idle"
  /\ IF ~audio
     THEN /\ req' = [req EXCEPT ![r] = [audio |-> FALSE, uniqueId |-> Undefined]]
          /\ resSent' = [resSent EXCEPT ![r] = Append(@, 400)]
          /\ outcome' = [outcome EXCEPT ![r] = "rejected"]
          /\ pc' = [pc EXCEPT ![r] = "done"]
     ELSE /\ req' = [req EXCEPT ![r] = [audio |-> TRUE, uniqueId |-> id]]
          /\ pc' = [pc EXCEPT ![r] = "mv"]
          /\ UNCHANGED <<resSent, outcome>>
  /\ UNCHANGED <<storage, unlink>>
  /\ RestUnchanged

\* await audioFile.mv(webmPath) settles for request r.
MvSettlesOf(r, ok) ==
  /\ pc[r] = "mv"
  /\ IF ok
     THEN /\ storage' = WriteFile(PathOf(req[r].uniqueId, "webm"), r)
          /\ pc' = [pc EXCEPT ![r] = "ffmpeg"]
          /\ UNCHANGED <<resSent, outcome, unlink>>
     ELSE /\ EndOf(r, 500, "failed")
          /\ UNCHANGED storage
  /\ UNCHANGED req
  /\ RestUnchanged

\* await runCommand(ffmpegPath, ["-y", "-i", webmPath, ..., wavPath])
\* settles for request r: it can succeed only if webmPath exists.
FfmpegSettlesOf(r, ok) ==
  /\ pc[r] = "ffmpeg"
  /\ ok => Exists(PathOf(req[r].uniqueId, "webm"))
  /\ IF ok
     THEN /\ storage' = WriteFile(PathOf(req[r].uniqueId, "wav"), r)
          /\ pc' = [pc EXCEPT ![r] = "whisper"]
          /\ UNCHANGED <<resSent, outcome, unlink>>
     ELSE /\ EndOf(r, 500, "failed")
          /\ UNCHANGED storage
  /\ UNCHANGED req
  /\ RestUnchanged

\* await runCommand(whisperExe, ["-f", wavPath, ...]) settles for request r:
\* it can succeed only if wavPath exists; an empty transcript ends the
\* request, any other starts the steps that touch no file.
WhisperSettlesOf(r, ok, speech) ==
  /\ pc[r] = "whisper"
  /\ ok => Exists(PathOf(req[r].uniqueId, "wav"))
  /\ IF ~ok THEN EndOf(r, 500, "failed")
     ELSE IF ~speech THEN EndOf(r, 200, "noSpeech")
     ELSE /\ pc' = [pc EXCEPT ![r] = "answer"]
          /\ UNCHANGED <<resSent, outcome, unlink>>
  /\ UNCHANGED <<req, storage>>
  /\ RestUnchanged

\* classifyParagraph ... res.json(...) or the catch block, for request r.
AnswerSettlesOf(r, ok) ==
  /\ pc[r] = "answer"
  /\ IF ok THEN EndOf(r, 200, "done") ELSE EndOf(r, 500, "failed")
  /\ UNCHANGED <<req, storage>>
  /\ RestUnchanged

\* fs.unlink(webmPath, () => {}) / fs.unlink(wavPath, () => {}) of request
\* r completes: the file of that path is removed, whoever wrote it.
UnlinkSettlesOf(r, f) ==
  /\ unlink[r][f] = "pending"
  /\ LET path == PathOf(req[r].uniqueId, f)
     IN  /\ storage' = {e \in storage : e.path # path}
         /\ unlink' = [unlink EXCEPT ![r][f] = IF Exists(path) THEN "removed" ELSE "ENOENT"]
  /\ UNCHANGED <<pc, req, resSent, outcome>>
  /\ RestUnchanged

NextConcurrent ==
  \/ \E r \in Reqs, audio \in BOOLEAN, id \in UniqueIds : PostOf(r, audio, id)
  \/ \E r \in Reqs, ok \in BOOLEAN : MvSettlesOf(r, ok)
  \/ \E r \in Reqs, ok \in BOOLEAN : FfmpegSettlesOf(r, ok)
  \/ \E r \in Reqs, ok \in BOOLEAN, speech \in BOOLEAN : WhisperSettlesOf(r, ok, speech)
  \/ \E r \in Reqs, ok \in BOOLEAN : AnswerSettlesOf(r, ok)
  \/ \E r \in Reqs, f \in Files : UnlinkSettlesOf(r, f)

SpecConcurrent == InitConcurrent /\ [][NextConcurrent]_vars

\* ============================================================= properties
Range(q) == {q[i] : i \in 1..Len(q)}
NoSpeechBody == [skipEvaluation |-> TRUE, message |-> "No speech detected."]
FailedResponse(op) == TextResponse(500, <<"Processing failed: ", ErrorMessage(op)>>)
\* The handler has ended for a request that carried audio.
Ended == pc = "done" /\ req.audio
\* The operations whose failure the handler catches, in pipeline order, with
\* the stages that have been started when each of them runs.
StagesAt(op) ==
  CASE op = "mv" -> <<"materialize">>
    [] op = "ffmpeg" -> <<"materialize", "normalize">>
    [] op = "whisper" -> <<"materialize", "normalize", "transcribe">>
    [] op \in {"postureData", "emotionData"} ->
         <<"materialize", "normalize", "transcribe", "classify">>
    [] OTHER -> <<"materialize", "normalize", "transcribe", "classify", "synthesize">>

\* C1: once the handler has ended for a request with audio, whatever the
\* exit (success, no speech, or a failure of any stage), the removal of both
\* the .webm and the .wav has been started; a removal that finds its file
\* missing (ENOENT) raises nothing: exactly one response has been sent and
\* it is the one the exit path produced.
C1_CleanupOnEveryExit ==
  Ended =>
    /\ outcome \in {"done", "noSpeech", "failed"}
    /\ \A f \in Files : unlink[f] # "none"
    /\ Len(resSent) = 1
    /\ outcome = "noSpeech" => resSent[1] = JsonResponse(NoSpeechBody)
    /\ outcome = "failed" => resSent[1] = FailedResponse(failure)
    /\ outcome = "done" => resSent[1].status = 200 /\ failure = "none"

\* Witness of C1: the move failed and left nothing, and both removals have
\* completed with ENOENT.
C1_Witness ==
  /\ Ended
  /\ failure = "mv"
  /\ \A f \in Files : unlink[f] = "ENOENT"

\* C2 as stated: in every state in which a response has been sent, neither
\* temporary artifact is in storage.
C2_AbsentAfterResponse == Len(resSent) > 0 => storage = {}

\* C2 amended: the removals are started only after the response, so an
\* artifact is absent from the moment its removal has completed without a
\* file-system error (it removed the file or found it missing); by then the
\* response has been sent.
C2_AbsentAfterRemoval ==
  \A f \in Files :
    unlink[f] \in {"removed", "ENOENT"} => (f \notin storage /\ Len(resSent) = 1)

\* Witness of C2: a successful request whose two files have been removed.
C2_Witness ==
  /\ outcome = "done"
  /\ \A f \in Files : unlink[f] = "removed"
  /\ storage = {}

\* The transcription engine has answered and the cleaned transcript is empty.
EmptyTranscript ==
  /\ "transcribe" \in Range(stages)
  /\ pc # "whisper"
  /\ failure # "whisper"
  /\ cleanedText = << >>

\* C3: when the cleaned transcript is empty the one response is exactly
\* {skipEvaluation: true, message: "No speech detected."}, without an
\* evaluation key, and neither the classifier nor the generative model has
\* been or is being called.
C3_NoSpeech ==
  EmptyTranscript =>
    /\ resSent = <<JsonResponse(NoSpeechBody)>>
    /\ DOMAIN resSent[1].json = {"skipEvaluation", "message"}
    /\ pc = "done"
    /\ hfLog = << >>
    /\ genaiCalls = 0
    /\ {"classify", "synthesize"} \cap Range(stages) = {}

\* Witness of C3: an empty transcript has been answered.
C3_Witness == EmptyTranscript /\ Len(resSent) = 1 /\ \E f \in Files : unlink[f] = "removed"

\* C4: a request without audio is answered 400 before anything else is
\* done: no stage is started, no file exists, no classifier or generative
\* call is made and no removal is started.
C4_NoAudioRejected ==
  (pc # "idle" /\ ~req.audio) =>
    /\ pc = "done"
    /\ resSent = <<TextResponse(400, <<"No audio uploaded">>)>>
    /\ stages = << >>
    /\ storage = {}
    /\ \A f \in Files : unlink[f] = "none"
    /\ hfLog = << >>
    /\ genaiCalls = 0

\* Witness of C4: a request without audio has been answered.
C4_Witness == pc = "done" /\ ~req.audio /\ Len(resSent) = 1 /\ req.postureData = "{"

\* C5: when the move, the transcode, the transcription, the generative call
\* or the parse of the model output fails, the stages started are exactly
\* those up to the failing one, the handler has ended, and the one response
\* is a 500 text "Processing failed: <the error's message>" with no JSON
\* body (no evaluation data).
C5_FatalErrors ==
  failure \in {"mv", "ffmpeg", "whisper", "genai", "JSON.parse"} =>
    /\ pc = "done"
    /\ stages = StagesAt(failure)
    /\ failure \in {"mv", "ffmpeg", "whisper"} => (hfLog = << >> /\ genaiCalls = 0)
    /\ genaiCalls <= 1
    /\ resSent = <<FailedResponse(failure)>>
    /\ DOMAIN resSent[1] = {"status", "text"}

\* Witness of C5: the transcode failed after the upload had been stored.
C5_Witness ==
  /\ failure = "ffmpeg"
  /\ resSent = <<FailedResponse("ffmpeg")>>
  /\ "webm" \in storage

\* The responses that carry an evaluation report (the speech-detected ones).
IsSuccess(r) == r.status = 200 /\ "transcription" \in DOMAIN r.json
EvaluationKeys == {"ratings", "sentimentTone", "answerStrength",
                   "howToMakeItBetter", "suggestedBetterAnswer"}
RatingKeys == {"clarity", "relevance", "completeness"}

\* C6: every success response holds the whole report: the evaluation
\* subtree with its ratings, tone narrative, strength, tips and suggested
\* answer, and the holisticFeedback subtree.
C6_CompleteReport ==
  \A i \in 1..Len(resSent) :
    IsSuccess(resSent[i]) =>
      /\ {"evaluation", "holisticFeedback"} \subseteq DOMAIN resSent[i].json
      /\ EvaluationKeys \subseteq DOMAIN resSent[i].json.evaluation
      /\ RatingKeys \subseteq DOMAIN resSent[i].json.evaluation.ratings

\* C7: in every success response that has an evaluation, the three scores
\* are integers from 1 to 5 and there are at most 5 tips.
C7_ScoresAndTipsInRange ==
  \A i \in 1..Len(resSent) :
    (IsSuccess(resSent[i]) /\ "evaluation" \in DOMAIN resSent[i].json) =>
      LET e == resSent[i].json.evaluation
      IN  /\ \A k \in RatingKeys : e.ratings[k].score \in 1..5
          /\ Len(e.howToMakeItBetter) <= 5

\* classifyParagraph has been called and is no longer running.
ClassifyReturned == "classify" \in Range(stages) /\ pc \notin {"hf", "backoff"}
\* The indices of the classifier calls in the log, and of those that succeeded.
Calls == {i \in 1..Len(hfLog) : hfLog[i].kind = "call"}
OkCalls == {i \in Calls : hfLog[i].ok}
HadClassifierFailure == \E i \in Calls : ~hfLog[i].ok
TelemetryParses ==
  ParseOptional(req.postureData).ok /\ ParseOptional(req.emotionData).ok

\* C8 as stated: after classifier failures classifyParagraph returns and
\* the pipeline always goes on to synthesis.
C8_AlwaysReachesSynthesis ==
  (HadClassifierFailure /\ ClassifyReturned) =>
    /\ failure # "hf"
    /\ textualEmotionResult # NoResult
    /\ "synthesize" \in Range(stages)

\* C8 amended: a classifier failure is never what fails the request:
\* classifyParagraph returns a result and the handler goes on to parse the
\* telemetry; synthesis is started exactly when both telemetry fields parse,
\* otherwise the request fails on the telemetry.
C8_ClassifierFailureNotFatal ==
  (HadClassifierFailure /\ ClassifyReturned) =>
    /\ failure # "hf"
    /\ textualEmotionResult # NoResult
    /\ IF TelemetryParses
       THEN "synthesize" \in Range(stages) /\ genaiCalls = 1
       ELSE /\ failure \in {"postureData", "emotionData"}
            /\ "synthesize" \notin Range(stages)
            /\ genaiCalls = 0

\* Witness of C8: a sentence used up its attempts and the generative model
\* has been called.
C8_Witness ==
  /\ pc = "genai"
  /\ \E i \in Calls : ~hfLog[i].ok /\ hfLog[i].attempt = maxRetries

\* The sentences of the transcript that are sent to the classifier.
Classified ==
  {i \in 1..Len(SplitSentences(cleanedText)) : trim(SplitSentences(cleanedText)[i]) # << >>}
FailedAttempt(i, a) ==
  [kind |-> "call", s |-> i, attempt |-> a, ok |-> FALSE, res |-> << >>]
AllAttemptsFailed ==
  \A i \in Classified : \A a \in 1..maxRetries : FailedAttempt(i, a) \in Range(hfLog)

\* C9: if all 3 attempts fail for every sentence, classifyParagraph returns
\* the dominant emotion "neutral" and an empty detailedScores.
C9_AllFailedIsNeutral ==
  (ClassifyReturned /\ AllAttemptsFailed) =>
    textualEmotionResult = [dominantEmotion |-> "neutral", detailedScores |-> << >>]

\* Witness of C9: a transcript of two sentences, all six calls failed.
C9_Witness ==
  /\ ClassifyReturned
  /\ AllAttemptsFailed
  /\ Cardinality(Classified) = 2
  /\ Cardinality(Calls) = 2 * maxRetries

\* The score a list of classifier results gives to a label.
RECURSIVE ResScore(_, _)
ResScore(res, l) ==
  IF res = << >> THEN 0
  ELSE (IF Head(res).label = l THEN Head(res).score ELSE 0) + ResScore(Tail(res), l)
\* The sum, over the successful calls of a log, of the scores of a label.
RECURSIVE LogScore(_, _)
LogScore(log, l) ==
  IF log = << >> THEN 0
  ELSE (IF Head(log).kind = "call" /\ Head(log).ok THEN ResScore(Head(log).res, l) ELSE 0)
         + LogScore(Tail(log), l)
\* The sum of all scores of the successful calls of a log.
RECURSIVE LogTotal(_)
LogTotal(log) ==
  IF log = << >> THEN 0
  ELSE (IF Head(log).kind = "call" /\ Head(log).ok
        THEN TotalScore(Head(log).res) ELSE 0) + LogTotal(Tail(log))
SucceededLabels == UNION {Labels(hfLog[i].res) : i \in OkCalls}
ExpectedScore(l) ==
  IF LogTotal(hfLog) > 0
  THEN Round4(LogScore(hfLog, l), LogTotal(hfLog))
  ELSE LogScore(hfLog, l)

\* C10: the distribution classifyParagraph returns has exactly the labels
\* of the successful calls, each with the sum of its scores over those calls
\* divided by the sum of all of them and rounded to 4 digits (the raw sums
\* when that total is 0); a sentence has at most one successful call, made
\* within 3 attempts, so it is counted once, and a sentence without one
\* adds nothing.
C10_DistributionOfSucceeded ==
  ClassifyReturned =>
    LET d == textualEmotionResult.detailedScores
    IN  /\ Labels(d) = SucceededLabels
        /\ Len(d) = Cardinality(SucceededLabels)
        /\ \A k \in 1..Len(d) : d[k].score = ExpectedScore(d[k].label)
        /\ \A i, j \in OkCalls : hfLog[i].s = hfLog[j].s => i = j
        /\ \A i \in OkCalls : hfLog[i].attempt <= maxRetries

\* Witness of C10: of two sentences the first failed three times and the
\* second succeeded on a retry; the distribution is not empty.
C10_Witness ==
  /\ ClassifyReturned
  /\ \A a \in 1..maxRetries : FailedAttempt(1, a) \in Range(hfLog)
  /\ \E i \in OkCalls : hfLog[i].s = 2 /\ hfLog[i].attempt = 2
  /\ textualEmotionResult.detailedScores # << >>

\* ---------------------------------------------------------------------- C11
RECURSIVE SumScores(_)
SumScores(m) == IF m = << >> THEN 0 ELSE Head(m).score + SumScores(Tail(m))
Distance(a, b) == IF a >= b THEN a - b ELSE b - a
Returned == pc = "returned"

\* C11 as stated: for every non-empty accumulated score map the normalized
\* values sum to 1.0 within 0.0001, i.e. to Fixed4 within one unit.
C11_SumsToOne ==
  (Returned /\ scoreMap # << >>)
    => Distance(SumScores(textualEmotionResult.detailedScores), Fixed4) <= 1

\* C11 amended: when the accumulated total is positive the normalized values
\* sum to 1.0 within half of 0.0001 per label (each value is rounded on its
\* own); when the total is zero the values are left as they are and sum to 0.
C11_SumsToOneWithinHalfUnitPerLabel ==
  Returned =>
    LET d == textualEmotionResult.detailedScores
    IN  /\ Labels(d) = Labels(scoreMap)
        /\ IF TotalScore(scoreMap) > 0
           THEN 2 * Distance(SumScores(d), Fixed4) <= Len(d)
           ELSE SumScores(d) = 0

\* Six labels of equal score: each becomes 0.1667 and the sum is 1.0002.
C11_Witness ==
  /\ Returned
  /\ Len(scoreMap) = 6
  /\ TotalScore(scoreMap) > 0
  /\ SumScores(textualEmotionResult.detailedScores) = Fixed4 + 2

\* ---------------------------------------------------------------------- C12
\* C12 as stated: whenever the total accumulated score is zero, also when
\* the classifier returned labels whose scores are all 0, detailedScores is
\* empty and dominantEmotion is "neutral".
C12_ZeroTotalIsNeutral ==
  (ClassifyReturned /\ LogTotal(hfLog) = 0) =>
    textualEmotionResult = [dominantEmotion |-> "neutral", detailedScores |-> << >>]

\* ---------------------------------------------------------------------- C13
\* C13: the label mapping is applied only to the value put in the prompt: in
\* a success response dominantEmotion is the label classifyParagraph
\* returned, one of the classifier's own labels or "neutral", and the keys
\* of textualEmotionAnalysis.data are the classifier's labels, while the
\* prompt carries the mapped value.
C13_MappingOnlyInPrompt ==
  /\ \A k \in 1..Len(resSent) :
       IsSuccess(resSent[k]) =>
         LET body == resSent[k].json
         IN  /\ body.dominantEmotion = textualEmotionResult.dominantEmotion
             /\ body.dominantEmotion \in SucceededLabels \cup {"neutral"}
             /\ body.textualEmotionAnalysis.data = textualEmotionResult.detailedScores
             /\ Labels(body.textualEmotionAnalysis.data) = SucceededLabels
  /\ "synthesize" \in Range(stages) =>
       /\ masterPrompt.tone = mappedEmotion(textualEmotionResult.dominantEmotion)
       /\ textualEmotionResult.dominantEmotion \in emotionMapKeys
            => masterPrompt.tone \notin SucceededLabels \cup {"neutral"}

\* Witness of C13: a success response whose dominantEmotion is "joy" while
\* the prompt said "Confident".
C13_Witness ==
  /\ Len(resSent) = 1
  /\ IsSuccess(resSent[1])
  /\ resSent[1].json.dominantEmotion = "joy"
  /\ Labels(resSent[1].json.textualEmotionAnalysis.data) = {"joy", "sadness"}
  /\ masterPrompt.tone = "Confident"

\* ---------------------------------------------------------------------- C14
\* Request r has arrived with audio and its handler has not ended.
InProgress(r) == pc[r] \notin {"idle", "done"}

\* C14 as stated: two requests in progress together have different
\* artifact paths, and the artifact a request in progress has written and
\* still needs is there, as that request wrote it.
C14_NoSharedArtifact ==
  /\ \A r1, r2 \in Reqs :
       (r1 # r2 /\ InProgress(r1) /\ InProgress(r2))
         => \A f1, f2 \in Files :
              PathOf(req[r1].uniqueId, f1) # PathOf(req[r2].uniqueId, f2)
  /\ \A r \in Reqs :
       /\ pc[r] = "ffmpeg"
            => [path |-> PathOf(req[r].uniqueId, "webm"), writer |-> r] \in storage
       /\ pc[r] = "whisper"
            => [path |-> PathOf(req[r].uniqueId, "wav"), writer |-> r] \in storage

\* ---------------------------------------------------------------------- C15
TerminalOutcomes == {"rejected", "noSpeech", "done", "failed"}
\* The status of the response each terminal outcome is answered with.
StatusOf(o) == IF o = "rejected" THEN 400 ELSE IF o = "failed" THEN 500 ELSE 200

\* C15: if every external call returns or fails, a request that has arrived
\* eventually ends; it has ended exactly when it has one of the four
\* terminal outcomes, which never changes afterwards, and exactly when it
\* has sent its response, of which there is never more than one.
C15_EveryRequestEndsOnce ==
  /\ (pc # "idle") ~> (pc = "done")
  /\ [](pc = "done" <=> outcome \in TerminalOutcomes)
  /\ [](pc # "done" <=> outcome = "none")
  /\ [](IF pc = "done"
        THEN Len(resSent) = 1 /\ resSent[1].status = StatusOf(outcome)
        ELSE resSent = << >>)
  /\ [][pc = "done" => (pc' = "done" /\ outcome' = outcome /\ resSent' = resSent)]_vars

\* Witness of C15: a request that went through retries of the classifier
\* and ended with the success response.
C15_Witness ==
  /\ pc = "done"
  /\ outcome = "done"
  /\ Len(resSent) = 1
  /\ \E i \in OkCalls : hfLog[i].attempt = maxRetries

\* ---------------------------------------------------------------------- C16
IsCall(k) == hfLog[k].kind = "call"
IsWait(k) == hfLog[k].kind = "wait"
\* Entry k + 1 of the log, if there is one, is the first call of a later
\* sentence.
NextIsLaterSentence(k) ==
  k < Len(hfLog) =>
    /\ IsCall(k + 1)
    /\ hfLog[k + 1].attempt = 1
    /\ hfLog[k + 1].s > hfLog[k].s
CallsOf(i) == {k \in Calls : hfLog[k].s = i}

\* C16: per sentence the classifier is called at least once and at most 3
\* times, on attempts 1, 2, ...; after a successful call the sentence gets
\* no further call; a failed call that is not the third is followed by a
\* backoff wait and then by the next attempt of the same sentence; the
\* third failed call is followed by no wait.
C16_RetryPolicy ==
  /\ \A k \in 1..Len(hfLog) :
       IF IsCall(k)
       THEN /\ hfLog[k].attempt \in 1..maxRetries
            /\ k = 1 => hfLog[k].attempt = 1
            /\ hfLog[k].ok => NextIsLaterSentence(k)
            /\ (~hfLog[k].ok /\ hfLog[k].attempt = maxRetries) => NextIsLaterSentence(k)
            /\ (~hfLog[k].ok /\ hfLog[k].attempt < maxRetries) =>
                 /\ k < Len(hfLog)
                 /\ IsWait(k + 1)
                 /\ hfLog[k + 1].s = hfLog[k].s
                 /\ k + 1 < Len(hfLog) =>
                      /\ IsCall(k + 2)
                      /\ hfLog[k + 2].s = hfLog[k].s
                      /\ hfLog[k + 2].attempt = hfLog[k].attempt + 1
       ELSE k > 1 /\ IsCall(k - 1) /\ ~hfLog[k - 1].ok
              /\ hfLog[k - 1].attempt < maxRetries
  /\ pc = "backoff" => (hfLog # << >> /\ IsWait(Len(hfLog)))
  /\ (hfLog # << >> /\ IsWait(Len(hfLog))) =>
       /\ pc \in {"backoff", "hf"}
       /\ idx = hfLog[Len(hfLog)].s
       /\ attempt = hfLog[Len(hfLog)].attempt + (IF pc = "hf" THEN 1 ELSE 0)
  /\ pc = "hf" => attempt \in 1..maxRetries
  /\ ClassifyReturned =>
       /\ \A i \in Classified : Cardinality(CallsOf(i)) \in 1..maxRetries
       /\ \A k \in Calls : hfLog[k].s \in Classified

\* Witness of C16: the first sentence failed three times, with two waits;
\* the second failed once, waited, and succeeded: eight log entries.
C16_Witness ==
  /\ ClassifyReturned
  /\ Len(hfLog) = 8
  /\ IsCall(5) /\ ~hfLog[5].ok /\ hfLog[5].attempt = maxRetries
  /\ IsCall(6) /\ hfLog[6].s = 2
  /\ IsWait(7)
  /\ hfLog[8].ok

\* ---------------------------------------------------------------------- C17
\* C17: when detailedScores is not empty, dominantEmotion is one of its
\* labels and no label has a larger normalized score.
C17_DominantIsMaximal ==
  (Returned /\ textualEmotionResult.detailedScores # << >>) =>
    LET d == textualEmotionResult.detailedScores
    IN  \E k \in 1..Len(d) :
          /\ d[k].label = textualEmotionResult.dominantEmotion
          /\ \A j \in 1..Len(d) : d[k].score >= d[j].score

\* Witness of C17: six labels, the last one alone has the largest score.
C17_Witness ==
  /\ Returned
  /\ Len(textualEmotionResult.detailedScores) = 6
  /\ textualEmotionResult.dominantEmotion = "anger"
  /\ \A j \in 1..5 : textualEmotionResult.detailedScores[j].score
                        < textualEmotionResult.detailedScores[6].score

\* ---------------------------------------------------------------------- C18
\* The labels of the successful calls of a log in the order in which they
\* were first added to the score map.
RECURSIVE AddLabels(_, _)
AddLabels(order, res) ==
  IF res = << >> THEN order
  ELSE AddLabels(IF Head(res).label \in Range(order) THEN order
                 ELSE Append(order, Head(res).label), Tail(res))
RECURSIVE LogOrder(_, _)
LogOrder(log, order) ==
  IF log = << >> THEN order
  ELSE LogOrder(Tail(log), IF Head(log).kind = "call" /\ Head(log).ok
                           THEN AddLabels(order, Head(log).res) ELSE order)
\* The first label of an order whose expected score no other label exceeds.
FirstMaximal(order) ==
  LET best == {k \in 1..Len(order) :
                 \A j \in 1..Len(order) : ExpectedScore(order[k]) >= ExpectedScore(order[j])}
  IN  order[CHOOSE k \in best : \A j \in best : k <= j]
Tied ==
  \E l1, l2 \in SucceededLabels :
    /\ l1 # l2
    /\ ExpectedScore(l1) = ExpectedScore(l2)
    /\ \A l \in SucceededLabels : ExpectedScore(l1) >= ExpectedScore(l)

\* C18: the dominant emotion is a function of the sequence of classifier
\* results: among the labels that tie for the largest normalized score it
\* is the one that was added to the score map first.
C18_TieGoesToFirstAdded ==
  (ClassifyReturned /\ SucceededLabels # {}) =>
    textualEmotionResult.dominantEmotion = FirstMaximal(LogOrder(hfLog, << >>))

\* Witness of C18: one successful call with sadness 2 and joy 2: a tie at
\* 0.5, and sadness, added first, is the dominant emotion.
C18_Witness ==
  /\ ClassifyReturned
  /\ Tied
  /\ Cardinality(OkCalls) = 1
  /\ LogOrder(hfLog, << >>) = <<"sadness", "joy">>
  /\ textualEmotionResult.dominantEmotion = "sadness"

RECURSIVE Flatten(_)
Flatten(ss) == IF ss = << >> THEN << >> ELSE Head(ss) \o Flatten(Tail(ss))
NonWhite(t) == SelectSeq(t, LAMBDA c : c \notin White)

\* C20 as stated: the sentences the transcript is split into, put together
\* again, are the transcript up to whitespace: no other character is lost
\* or repeated.
C20_SplitKeepsEveryCharacter ==
  pc \in {"hf", "backoff"} => NonWhite(Flatten(sentences)) = NonWhite(cleanedText)

\* ---------------------------------------------------------------------- C21
StageOrder == <<"materialize", "normalize", "transcribe", "classify", "synthesize">>
\* The awaits at which the handler is suspended while stage k is in progress.
AwaitsOf(k) ==
  CASE k = 1 -> {"mv"}
    [] k = 2 -> {"ffmpeg"}
    [] k = 3 -> {"whisper"}
    [] k = 4 -> {"hf", "backoff"}
    [] k = 5 -> {"genai"}
\* What the successful completion of stage k leaves behind in the step
\* that completes it.
CompletedInStep(k) ==
  CASE k = 1 -> "webm" \in storage'
    [] k = 2 -> "wav" \in storage'
    [] k = 3 -> cleanedText' # << >>
    [] k = 4 -> textualEmotionResult' # NoResult /\ sentences' = << >>

\* C21: the stages of a request start in the order materialize, normalize,
\* transcribe, classify, synthesize; the handler is suspended in at most
\* one stage, the last one started; and stage k + 1 starts only in the step
\* in which the awaited call of stage k settles with success.
C21_StagesInOrder ==
  /\ [](/\ stages = SubSeq(StageOrder, 1, Len(stages))
        /\ \A k \in 1..Len(StageOrder) : pc \in AwaitsOf(k) => Len(stages) = k
        /\ pc = "idle" => stages = << >>)
  /\ [][stages' # stages =>
          /\ stages' = SubSeq(StageOrder, 1, Len(stages) + 1)
          /\ pc' \in AwaitsOf(Len(stages'))
          /\ failure' = "none" /\ outcome' = "none" /\ resSent' = << >>
          /\ IF stages = << >> THEN pc = "idle"
             ELSE /\ pc \in AwaitsOf(Len(stages))
                  /\ CompletedInStep(Len(stages))]_vars

\* Witness of C21: all five stages have started, the generative model is
\* being awaited and both artifacts are in place.
C21_Witness ==
  /\ stages = StageOrder
  /\ pc = "genai"
  /\ storage = Files
  /\ cleanedText # << >>

\* ---------------------------------------------------------------------- C22
\* The sentences of a split that are sent to the classifier.
ClassifiedOf(sents) == {i \in 1..Len(sents) : trim(sents[i]) # << >>}
\* In a log, sentence j has succeeded or has used up its attempts.
CompletedIn(log, j) ==
  \E k \in 1..Len(log) :
    /\ log[k].kind = "call"
    /\ log[k].s = j
    /\ log[k].ok \/ log[k].attempt = maxRetries
\* A step in which a classifier call is issued.
Issued == pc' = "hf" /\ <<idx', attempt'>> # <<idx, attempt>>

\* C22: classifier calls are made one at a time in transcript order: the
\* calls that have settled are in sentence order, the one outstanding call
\* is for a sentence that has not succeeded or run out of attempts, and the
\* first attempt of a sentence is issued only in a step that finds every
\* earlier sentence succeeded or out of attempts; a later attempt is issued
\* only when the backoff of the same sentence ends.
C22_OneAtATimeInOrder ==
  /\ [](/\ \A k1, k2 \in Calls : k1 < k2 => hfLog[k1].s <= hfLog[k2].s
        /\ pc \in {"hf", "backoff"} =>
             /\ idx \in ClassifiedOf(sentences)
             /\ ~CompletedIn(hfLog, idx)
             /\ \A k \in Calls : hfLog[k].s <= idx
             /\ \A j \in ClassifiedOf(sentences) : j < idx => CompletedIn(hfLog, j)
        /\ ClassifyReturned => \A j \in Classified : CompletedIn(hfLog, j))
  /\ [][Issued =>
          IF attempt' = 1
          THEN /\ pc \in {"whisper", "hf"}
               /\ idx' > idx
               /\ \A j \in ClassifiedOf(sentences') : j < idx' => CompletedIn(hfLog', j)
          ELSE /\ pc = "backoff"
               /\ idx' = idx
               /\ attempt' = attempt + 1
               /\ hfLog' = hfLog]_vars

\* Witness of C22: the first attempt for the second sentence is outstanding
\* after the first sentence failed three times.
C22_Witness ==
  /\ pc = "hf"
  /\ idx = 2
  /\ attempt = 1
  /\ Len(hfLog) = 5
  /\ ~hfLog[5].ok /\ hfLog[5].s = 1 /\ hfLog[5].attempt = maxRetries

\* ---------------------------------------------------------------------- C23
\* The telemetry texts that are not JSON, and those that count as not sent.
InvalidJson == {"{"}
AbsentOrEmpty == {Undefined, ""}
InvalidTelemetry == req.postureData \in InvalidJson \/ req.emotionData \in InvalidJson

\* C23: if postureData or emotionData is present and not valid JSON, the
\* generative model is never called and no report is sent; the request does
\* not fail on the field before classifyParagraph has returned, and once
\* it has returned the request has ended as failed with a 500 response and
\* the removal of both artifacts has been started.  If no field is invalid
\* the request never fails on a field, and a field that is absent or empty
\* is null in the success response.
C23_TelemetryParsing ==
  /\ InvalidTelemetry =>
       /\ genaiCalls = 0
       /\ "synthesize" \notin Range(stages)
       /\ \A k \in 1..Len(resSent) : ~IsSuccess(resSent[k])
  /\ failure \in {"postureData", "emotionData"} =>
       /\ InvalidTelemetry
       /\ ClassifyReturned
       /\ textualEmotionResult # NoResult
  /\ (InvalidTelemetry /\ ClassifyReturned) =>
       /\ pc = "done"
       /\ outcome = "failed"
       /\ failure = (IF req.postureData \in InvalidJson THEN "postureData"
                     ELSE "emotionData")
       /\ Len(resSent) = 1
       /\ resSent[1].status = 500
       /\ \A f \in Files : unlink[f] # "none"
  /\ \A k \in 1..Len(resSent) :
       IsSuccess(resSent[k]) =>
         /\ req.postureData \in AbsentOrEmpty
              => resSent[k].json.postureAnalysis.data = Null
         /\ req.emotionData \in AbsentOrEmpty
              => resSent[k].json.emotionAnalysis.data = Null

\* Witness of C23: postureData was sent empty and emotionData is not JSON;
\* the request failed on emotionData after a classification with retries,
\* and one removal has completed.
C23_Witness ==
  /\ req.postureData = ""
  /\ req.emotionData \in InvalidJson
  /\ outcome = "failed"
  /\ failure = "emotionData"
  /\ HadClassifierFailure
  /\ textualEmotionResult.dominantEmotion = "joy"
  /\ unlink["webm"] = "removed"

\* A second reachable case of C23: the success response of a request whose
\* postureData was empty and whose emotionData was not sent.
C23_WitnessNull ==
  /\ Len(resSent) = 1
  /\ IsSuccess(resSent[1])
  /\ req.postureData = ""
  /\ req.emotionData = Undefined
  /\ resSent[1].json.postureAnalysis.data = Null

====
